---- MODULE Spec2Model ----
(***************************************************************************)
(* A model of the POS front end of ury_companion_pos_website:              *)
(*   - KeyboardProvider, the on-screen keyboard context, in its two        *)
(*     revisions: src/unnamed/part_000 (closeKeyboard flushes the buffered *)
(*     value, outside clicks go to a backdrop) and src/unnamed/part_001    *)
(*     (no buffer, outside clicks go to a document mousedown listener);    *)
(*   - ProductDialog (src/src/components/SubCategoryCard.tsx, lines        *)
(*     41-552): quantity, custom rate, comments, add-ons, total.           *)
(* Text is a sequence of one-character strings, so that parseInt,          *)
(* parseFloat, Number and toString are computed, not assumed.              *)
(***************************************************************************)
EXTENDS Integers, Sequences, FiniteSets

(***************************************************************************)
(* Bounds of the model.                                                    *)
(***************************************************************************)
\* longest text typed on the on-screen keyboard
MaxText == 1
\* most deferred setInput calls pending at once
MaxTimers == 1
\* longest text given to the quantity field
MaxQtyLen == 3
\* longest text given to the custom-rate field
MaxRateLen == 3
\* most lines in the cart, where commits append to it
MaxCart == 3
\* most lines in a cart that the dialog is opened over
MaxLines == 2
\* most db.getDoc calls in flight at once
MaxFetches == 3
\* longest search text
MaxSearch == 2

\* keys of the on-screen keyboard that the keyboard specification presses
KeyChars == {"5", "."}
\* characters typed into the search box
SearchChars == {"P", "a", "c"}
\* characters of the texts given to the quantity field
QtyChars == {"9", ".", "-"}
\* characters of the texts given to the custom-rate field
RateChars == {"5", "."}

StringsUpTo(chars, n) == UNION {[1..k -> chars] : k \in 0..n}

(***************************************************************************)
(* JavaScript numbers and text.  A number is an integer count of           *)
(* 1/Scale units (fixed point: every text of the model has an exact        *)
(* value, its fraction being shorter than the text); NaN is a value no     *)
(* arithmetic of the model produces, and it is absorbing for + and *, as   *)
(* in JavaScript.                                                          *)
(***************************************************************************)
NaN == 0 - 999999999

RECURSIVE Pow10(_)
Pow10(n) == IF n = 0 THEN 1 ELSE 10 * Pow10(n - 1)

Scale == Pow10((IF MaxRateLen > MaxQtyLen THEN MaxRateLen ELSE MaxQtyLen) - 1)

IsNaN(x) == x = NaN

Add(x, y) == IF IsNaN(x) \/ IsNaN(y) THEN NaN ELSE x + y

\* x is in 1/Scale units, n is a plain integer (a quantity)
Times(x, n) == IF IsNaN(x) \/ IsNaN(n) THEN NaN ELSE x * n

DecimalDigits == <<"0", "1", "2", "3", "4", "5", "6", "7", "8", "9">>

DigitChars == {DecimalDigits[i] : i \in 1..10}

DigitVal(c) == (CHOOSE i \in 1..10 : DecimalDigits[i] = c) - 1

RECURSIVE DigitPrefixLen(_)
DigitPrefixLen(s) ==
    IF s = <<>> \/ Head(s) \notin DigitChars THEN 0
    ELSE 1 + DigitPrefixLen(Tail(s))

RECURSIVE DigitsValue(_)
DigitsValue(s) ==
    IF s = <<>> THEN 0
    ELSE 10 * DigitsValue(SubSeq(s, 1, Len(s) - 1)) + DigitVal(s[Len(s)])

HasSign(s) == s # <<>> /\ Head(s) \in {"-", "+"}

Unsigned(s) == IF HasSign(s) THEN Tail(s) ELSE s

SignOf(s) == IF s # <<>> /\ Head(s) = "-" THEN 0 - 1 ELSE 1

\* Number.prototype.toString of an integer
RECURSIVE NatToString(_)
NatToString(n) ==
    IF n < 10 THEN <<DecimalDigits[n + 1]>>
    ELSE NatToString(n \div 10) \o <<DecimalDigits[(n % 10) + 1]>>

NumToString(n) == IF n < 0 THEN <<"-">> \o NatToString(0 - n) ELSE NatToString(n)

\* parseInt(s, 10): an optional sign, then the longest prefix of digits;
\* NaN when there is no digit.  The rest of the text is ignored.
ParseInt(s) ==
    LET body == Unsigned(s)
        n    == DigitPrefixLen(body)
    IN  IF n = 0 THEN NaN ELSE SignOf(s) * DigitsValue(SubSeq(body, 1, n))

\* The prefix parseFloat reads: sign, digits, and a "." with its digits.
\* (Exponents, "Infinity" and blanks are not in the alphabets of the model.)
FloatIntLen(s) == DigitPrefixLen(Unsigned(s))

FloatHasDot(s) ==
    LET body == Unsigned(s)
        n    == FloatIntLen(s)
    IN  Len(body) > n /\ body[n + 1] = "."

FloatFracLen(s) ==
    LET body == Unsigned(s)
        n    == FloatIntLen(s)
    IN  IF FloatHasDot(s) THEN DigitPrefixLen(SubSeq(body, n + 2, Len(body))) ELSE 0

\* number of characters of s that parseFloat consumes (0: no number)
FloatPrefixLen(s) ==
    IF FloatIntLen(s) + FloatFracLen(s) = 0 THEN 0
    ELSE (IF HasSign(s) THEN 1 ELSE 0) + FloatIntLen(s)
         + (IF FloatHasDot(s) THEN 1 + FloatFracLen(s) ELSE 0)

\* parseFloat(s), in 1/Scale units
ParseFloat(s) ==
    LET body == Unsigned(s)
        n    == FloatIntLen(s)
        m    == FloatFracLen(s)
    IN  IF n + m = 0 THEN NaN
        ELSE SignOf(s) *
             (DigitsValue(SubSeq(body, 1, n)) * Scale
              + DigitsValue(SubSeq(body, n + 2, n + 1 + m)) * (Scale \div Pow10(m)))

\* Number(s), in 1/Scale units: the whole text must be a numeric literal;
\* the empty text is 0.
NumberOf(s) ==
    IF s = <<>> THEN 0
    ELSE IF FloatPrefixLen(s) = Len(s) THEN ParseFloat(s)
    ELSE NaN

(***************************************************************************)
(* State.                                                                  *)
(***************************************************************************)
VARIABLES
    \* KeyboardProvider
    revision,            \* "flush": part_000, "direct": part_001
    isKeyboardOpen,
    activeInput,
    currentOnChange,     \* the bound sink, named by the input it writes to
    keyboardInputValue,  \* part_000 only: the buffered preview text
    kbText,              \* the text the keyboard widget holds (keyboardRef.current)
    timers,              \* pending setTimeout callbacks of openKeyboard, oldest first
    \* ProductDialog and the store
    dialogOpen,
    selectedItem,
    editMode,
    itemToReplace,
    quantity,
    comments,
    customRate,
    selectedAddons,
    initialVariant,      \* props of ProductDialog: the id of the initial variant, or NULL
    initialAddons,       \* and the initial add-ons
    itemDoc,             \* the item whose record the dialog holds, or NULL
    fetches,             \* the items of the db.getDoc calls in flight, oldest first
    \* MenuList and the store's filters
    menuFields,          \* the fields of each MenuItem record that MenuList reads
    selectedCategory,
    selectedSubCategory,
    searchQuery,
    quickFilter,
    activeOrders,
    menuItems,           \* the price of each MenuItem record of the store
    \* history of the last step
    lastOp,              \* the event handled last and its arguments
    ran,                 \* the handlers the last step ran
    invoked,             \* the onChange calls the last step made, in order
    opens,               \* the sinks given to the last two openKeyboard calls, latest last
    buffered             \* the text last handed to the keyboard context for the bound input

kbVars == <<revision, isKeyboardOpen, activeInput, currentOnChange,
            keyboardInputValue, kbText, timers>>

dlgVars == <<dialogOpen, selectedItem, editMode, itemToReplace, quantity,
             comments, customRate, selectedAddons>>

storeVars == <<activeOrders, menuItems>>

propVars == <<initialVariant, initialAddons>>

fetchVars == <<itemDoc, fetches>>

listVars == <<menuFields, selectedCategory, selectedSubCategory, searchQuery, quickFilter>>

histVars == <<lastOp, ran, invoked, opens, buffered>>

vars == <<kbVars, dlgVars, storeVars, propVars, fetchVars, listVars, histVars>>

NULL == "null"

\* undefined, where a number is expected
Undefined == 0 - 999999998

\* null or undefined, where a cart line is expected
NoLine == [uniqueId |-> 0]

\* null or undefined, where a list of add-ons is expected
NoList == <<[id |-> NULL]>>

InputTypes == {"comments", "customRate"}

KeyboardTexts == StringsUpTo(KeyChars, MaxText)

Op(name, input) == [op |-> name, input |-> input]

(***************************************************************************)
(* The handlers run one after another inside one browser event, so each    *)
(* is a function from the program state to the program state; S.invoked    *)
(* collects the onChange calls made on the way and S.ran the handlers that *)
(* ran.                                                                    *)
(***************************************************************************)
Cur ==
    [isKeyboardOpen     |-> isKeyboardOpen,
     activeInput        |-> activeInput,
     currentOnChange    |-> currentOnChange,
     keyboardInputValue |-> keyboardInputValue,
     kbText             |-> kbText,
     timers             |-> timers,
     dialogOpen         |-> dialogOpen,
     selectedItem       |-> selectedItem,
     comments           |-> comments,
     customRate         |-> customRate,
     invoked            |-> <<>>,
     ran                |-> {}]

\* handleCustomRateChange(value): the custom rate it leaves, given the rate before
handleCustomRateChange(rate, value) ==
    IF value = <<>> THEN <<>>
    ELSE IF ~IsNaN(ParseFloat(value)) /\ ParseFloat(value) >= 0 THEN value
    ELSE rate

\* The closure handleInputFocus builds and hands to openKeyboard, called with
\* value.  React drops the state update of a component that is unmounted.
onChange(S, inputType, value) ==
    LET S1 == [S EXCEPT !.invoked = Append(@, [cb |-> inputType, v |-> value])]
    IN  IF ~S.dialogOpen THEN S1
        ELSE IF inputType = "comments" THEN [S1 EXCEPT !.comments = value]
        ELSE [S1 EXCEPT !.customRate = handleCustomRateChange(S.customRate, value)]

\* an openKeyboard that keeps the sink it already holds
openKeyboardKeepsSink(S, inputId, currentValue, cb) ==
    [S EXCEPT !.ran = @ \cup {"openKeyboard"},
              !.activeInput = inputId,
              !.currentOnChange = IF @ # NULL THEN @ ELSE cb,
              !.keyboardInputValue =
                  IF revision = "flush" THEN currentValue ELSE @,
              !.isKeyboardOpen = TRUE,
              !.timers = Append(@, currentValue)]

\* an openKeyboard that does not show currentValue in the preview field
openKeyboardUnseeded(S, inputId, currentValue, cb) ==
    [S EXCEPT !.ran = @ \cup {"openKeyboard"},
              !.activeInput = inputId,
              !.currentOnChange = cb,
              !.isKeyboardOpen = TRUE,
              !.timers = Append(@, currentValue)]

openKeyboard(S, inputId, currentValue, cb) ==
    [S EXCEPT !.ran = @ \cup {"openKeyboard"},
              !.activeInput = inputId,
              !.currentOnChange = cb,
              !.keyboardInputValue =
                  IF revision = "flush" THEN currentValue ELSE @,
              !.isKeyboardOpen = TRUE,
              !.timers = Append(@, currentValue)]

\* a closeKeyboard that leaves the sink bound
closeKeyboardKeepsSink(S) ==
    LET S1 == IF revision = "flush" /\ S.currentOnChange # NULL
              THEN onChange(S, S.currentOnChange, S.keyboardInputValue)
              ELSE S
    IN  [S1 EXCEPT !.ran = @ \cup {"closeKeyboard"},
                   !.isKeyboardOpen = FALSE,
                   !.activeInput = NULL,
                   !.keyboardInputValue = <<>>,
                   !.kbText = <<>>]

\* a closeKeyboard that leaves activeInput set
closeKeyboardKeepsInput(S) ==
    LET S1 == IF revision = "flush" /\ S.currentOnChange # NULL
              THEN onChange(S, S.currentOnChange, S.keyboardInputValue)
              ELSE S
    IN  [S1 EXCEPT !.ran = @ \cup {"closeKeyboard"},
                   !.isKeyboardOpen = FALSE,
                   !.currentOnChange = NULL,
                   !.keyboardInputValue = <<>>,
                   !.kbText = <<>>]

closeKeyboard(S) ==
    LET S1 == IF revision = "flush" /\ S.currentOnChange # NULL
              THEN onChange(S, S.currentOnChange, S.keyboardInputValue)
              ELSE S
    IN  [S1 EXCEPT !.ran = @ \cup {"closeKeyboard"},
                   !.isKeyboardOpen = FALSE,
                   !.activeInput = NULL,
                   !.currentOnChange = NULL,
                   !.keyboardInputValue = <<>>,
                   !.kbText = <<>>]

\* an updateKeyboardValue that does not buffer the text
updateKeyboardValueUnbuffered(S, value) ==
    LET S0 == [S EXCEPT !.ran = @ \cup {"updateKeyboardValue"}]
    IN  IF S.currentOnChange # NULL
        THEN onChange(S0, S.currentOnChange, value)
        ELSE S0

updateKeyboardValue(S, value) ==
    LET S0 == [S EXCEPT !.ran = @ \cup {"updateKeyboardValue"}]
        S1 == IF revision = "flush"
              THEN [S0 EXCEPT !.keyboardInputValue = value]
              ELSE S0
    IN  IF S.currentOnChange # NULL
        THEN onChange(S1, S.currentOnChange, value)
        ELSE S1

\* ProductDialog.handleInputFocus
handleInputFocus(S, inputType) ==
    LET currentValue == IF inputType = "comments" THEN S.comments ELSE S.customRate
    IN  openKeyboard(S, inputType, currentValue, inputType)

\* ProductDialog.handleClose: setSelectedItem(null); onClose() unmounts the dialog
handleClose(S) ==
    [S EXCEPT !.ran = @ \cup {"handleClose"},
              !.selectedItem = NULL,
              !.dialogOpen = FALSE,
              !.comments = <<>>,
              !.customRate = <<>>]

(***************************************************************************)
(* The store (usePOSStore) and the menu.  The store's code is not among    *)
(* the sources; it is modelled from the specification: the cart is a list  *)
(* of lines, addToOrder appends a line under a fresh uniqueId,             *)
(* removeFromOrder drops the line of a uniqueId.                           *)
(***************************************************************************)
MenuItemIds == {"pizza", "cola"}

\* menuItems[i].price as the store loads it, in 1/Scale units: 10.00 and 2.50
MenuPrice == [pizza |-> 10 * Scale, cola |-> (5 * Scale) \div 2]

\* itemDoc.custom_pos_add_on_items of each item; "dip" is on no menu
AddOnItems == [pizza |-> <<"cola", "dip">>, cola |-> <<>>]

\* custom_pos_item_variants of each Item record: the items of one variant
\* group, one of them absent from the menu
VariantItems ==
    [pizza |-> <<"pizza", "cola", "slice">>, cola |-> <<"pizza", "cola", "slice">>]

\* variantDetails: each variant entry of the record the dialog holds
variantDetails(doc) ==
    IF doc = NULL THEN <<>>
    ELSE [k \in 1..Len(VariantItems[doc]) |->
             LET entry == VariantItems[doc][k]
             IN  [id |-> entry,
                  price |-> IF entry \in MenuItemIds THEN menuItems[entry] ELSE 0]]

\* menuItems in the order of the store's list
MenuOrder == <<"pizza", "cola">>

\* the fields of the MenuItem records that MenuList filters on
MenuFields ==
    [pizza |-> [name |-> <<"P", "a">>, item |-> <<"p">>, main_category |-> "Food",
                sub_category |-> "Mains", special_dish |-> 1],
     cola  |-> [name |-> <<"C", "a">>, item |-> <<"c">>, main_category |-> "Drinks",
                sub_category |-> "Soft", special_dish |-> 0]]

Categories == {"Food", "Drinks"}

SubCategories == {"Mains", "Soft"}

QuickFilters == {"all", "special"}

\* String.prototype.toLowerCase, on the letters in use
UpperToLower == [P |-> "p", C |-> "c", A |-> "a"]

toLowerCase(text) ==
    [k \in 1..Len(text) |->
        IF text[k] \in DOMAIN UpperToLower THEN UpperToLower[text[k]] ELSE text[k]]

\* String.prototype.includes
includes(text, term) ==
    \E k \in 0..(Len(text) - Len(term)) : SubSeq(text, k + 1, k + Len(term)) = term

\* an item filteredItems keeps, without the test on the sub-category
matchesIgnoringSubCategory(fields, category, subCategory, query, filter) ==
    LET searchTerm == toLowerCase(query)
        matchesCategory == category = NULL \/ fields.main_category = category
        matchesSearch == \/ query = <<>>
                         \/ includes(toLowerCase(fields.name), searchTerm)
                         \/ includes(toLowerCase(fields.item), searchTerm)
        matchesFilter == \/ filter = "all"
                         \/ (filter = "special" /\ fields.special_dish = 1)
    IN  matchesCategory /\ matchesSearch /\ matchesFilter

\* the predicate of menuItems.filter in filteredItems
matches(fields, category, subCategory, query, filter) ==
    LET searchTerm == toLowerCase(query)
        matchesCategory == category = NULL \/ fields.main_category = category
        matchesSubCategory == subCategory = NULL \/ fields.sub_category = subCategory
        matchesSearch == \/ query = <<>>
                         \/ includes(toLowerCase(fields.name), searchTerm)
                         \/ includes(toLowerCase(fields.item), searchTerm)
        matchesFilter == \/ filter = "all"
                         \/ (filter = "special" /\ fields.special_dish = 1)
    IN  matchesCategory /\ matchesSubCategory /\ matchesSearch /\ matchesFilter

\* filteredItems of MenuList: the ids of the items shown, in the menu's order
filteredItems(menu, category, subCategory, query, filter) ==
    SelectSeq(MenuOrder,
              LAMBDA id : matches(menu[id], category, subCategory, query, filter))

\* addonDetails: each add-on entry with the price the menu gives it, 0 when
\* the menu does not list it
addonDetails(doc) ==
    IF doc = NULL THEN <<>>
    ELSE [k \in 1..Len(AddOnItems[doc]) |->
             LET entry == AddOnItems[doc][k]
             IN  [id |-> entry,
                  price |-> IF entry \in MenuItemIds THEN menuItems[entry] ELSE 0]]

SeqToSet(q) == {q[k] : k \in 1..Len(q)}

Lt(a, b) == ~IsNaN(a) /\ ~IsNaN(b) /\ a < b

\* Number.prototype.toString of a number in 1/Scale units
RECURSIVE FracDigits(_, _)
FracDigits(frac, unit) ==
    IF frac = 0 THEN <<>>
    ELSE <<DecimalDigits[(frac \div unit) + 1]>> \o FracDigits(frac % unit, unit \div 10)

NumberToString(x) ==
    IF IsNaN(x) THEN <<"N", "a", "N">>
    ELSE LET a == IF x < 0 THEN 0 - x ELSE x
             body == NatToString(a \div Scale)
                     \o (IF a % Scale = 0 THEN <<>>
                         ELSE <<".">> \o FracDigits(a % Scale, Scale \div 10))
         IN  IF x < 0 THEN <<"-">> \o body ELSE body

\* activeOrders.find(...) of ProductDialog: the first line that matches, or NULL
LineMatches(order, item, variant, addons) ==
    /\ order.id = item
    /\ (order.selectedVariant = NULL \/ order.selectedVariant = variant)
    /\ (order.selectedAddons = NoList
        \/ (Len(order.selectedAddons) = Len(addons)
            /\ \A k \in 1..Len(order.selectedAddons) :
                   order.selectedAddons[k].id \in {a.id : a \in SeqToSet(addons)}))

existingCartItem(orders, item, variant, addons) ==
    IF item = NULL
       \/ ~\E k \in 1..Len(orders) :
              LineMatches(orders[k], item, variant, addons)
    THEN NoLine
    ELSE orders[CHOOSE k \in 1..Len(orders) :
                  /\ LineMatches(orders[k], item, variant, addons)
                  /\ \A j \in 1..(k - 1) :
                         ~LineMatches(orders[j], item, variant, addons)]

\* the store's getItemQuantityFromCart: the quantity of the item in the cart
RECURSIVE getItemQuantityFromCart(_, _)
getItemQuantityFromCart(orders, item) ==
    IF orders = <<>> THEN 0
    ELSE (IF Head(orders).id = item THEN Head(orders).quantity ELSE 0)
         + getItemQuantityFromCart(Tail(orders), item)

(***************************************************************************)
(* ProductDialog.                                                          *)
(***************************************************************************)
MaxQuantity == 99

\* x?.toString() || '' for a customRate field of a cart line or of itemToReplace
RateText(line) ==
    IF line = NoLine \/ line.customRate = Undefined THEN <<>>
    ELSE NumberToString(line.customRate)

CommentText(line) == IF line = NoLine THEN <<>> ELSE line.comment

\* the text a || b || '' picks
OrElse(a, b) == IF a # <<>> THEN a ELSE b

\* The state ProductDialog holds after it mounts for item: the useState
\* initialisers, then the effect that initialises from the cart.
mountQuantity(orders, item, edit, initialQuantity) ==
    LET existing == existingCartItem(orders, item, initialVariant, initialAddons)
    IN  IF edit
        THEN (IF initialQuantity = Undefined THEN <<"0">> ELSE NumToString(initialQuantity))
        ELSE IF existing # NoLine THEN NumToString(existing.quantity)
        ELSE NumToString(getItemQuantityFromCart(orders, item))

mountComments(orders, item, edit, replaced) ==
    LET existing == existingCartItem(orders, item, initialVariant, initialAddons)
    IN  IF ~edit /\ existing # NoLine THEN CommentText(existing)
        ELSE OrElse(CommentText(replaced), CommentText(existing))

mountCustomRate(orders, item, edit, replaced) ==
    LET existing == existingCartItem(orders, item, initialVariant, initialAddons)
    IN  IF ~edit /\ existing # NoLine THEN RateText(existing)
        ELSE OrElse(RateText(replaced), RateText(existing))

\* a handleQuantityChange without the upper limit
handleQuantityChangeNoLimit(q, value) ==
    IF value = <<>> THEN <<>>
    ELSE LET num == ParseInt(value)
         IN  IF ~IsNaN(num) /\ num >= 0
             THEN NumToString(num)
             ELSE q

handleQuantityChange(q, value) ==
    IF value = <<>> THEN <<>>
    ELSE LET num == ParseInt(value)
         IN  IF ~IsNaN(num) /\ num >= 0 /\ num <= MaxQuantity
             THEN NumToString(num)
             ELSE q

handleIncrement(q) ==
    LET currentNum == IF q = <<>> THEN 0 ELSE ParseInt(q)
    IN  IF Lt(currentNum, MaxQuantity) THEN NumToString(currentNum + 1) ELSE q

handleDecrement(q) ==
    LET currentNum == IF q = <<>> THEN 0 ELSE ParseInt(q)
    IN  IF Lt(0, currentNum) THEN NumToString(currentNum - 1) ELSE q

\* onBlur of the quantity input
quantityBlur(q) == IF q = <<>> THEN <<"0">> ELSE q

handleAddonToggle(current, addon) ==
    IF \E k \in 1..Len(current) : current[k].id = addon.id
    THEN SelectSeq(current, LAMBDA a : a.id # addon.id)
    ELSE Append(current, addon)

basePrice(item, rate) ==
    IF rate # <<>> THEN NumberOf(rate)
    ELSE IF item # NULL /\ menuItems[item] # 0 THEN menuItems[item]
    ELSE 0

numericQuantity(q) == IF q = <<>> THEN 0 ELSE ParseInt(q)

RECURSIVE addonsTotal(_)
addonsTotal(addons) ==
    IF addons = <<>> THEN 0
    ELSE Add(addonsTotal(SubSeq(addons, 1, Len(addons) - 1)), addons[Len(addons)].price)

\* a total that leaves the add-ons out
totalOfItemAlone(item, rate, addons, q) ==
    Times(basePrice(item, rate), numericQuantity(q))

total(item, rate, addons, q) ==
    Times(Add(basePrice(item, rate), addonsTotal(addons)), numericQuantity(q))

(***************************************************************************)
(* Pointer events.  A click is a mousedown, which the document listeners   *)
(* see first, and then the click handler of the element it lands on.       *)
(***************************************************************************)
\* places inside the keyboard container (.virtual-keyboard-container)
KeyboardTargets == {"keyboard", "keyboardClose"}

\* <input> elements of the dialog: the one that owns the keyboard, and the
\* quantity input, which has no onFocus handler
InputTargets == {"ownerInput", "otherInput"}

\* places inside the dialog content (dialogRef)
DialogTargets == InputTargets \cup {"dialog", "dialogClose"}

\* "outside": the page around the open dialog; "page": the page when no
\* dialog is open; "backdrop": the backdrop part_000 lays over the page
ClickTargets == KeyboardTargets \cup DialogTargets \cup {"outside", "page", "backdrop"}

\* part_000 renders the backdrop (fixed inset-0, z-[9998]) over everything
\* but the keyboard while the keyboard is open
covered(S) == revision = "flush" /\ S.isKeyboardOpen

Reachable(S, target) ==
    CASE target \in KeyboardTargets -> S.isKeyboardOpen
      [] target = "backdrop" -> covered(S)
      [] target = "ownerInput" -> S.dialogOpen /\ S.isKeyboardOpen /\ ~covered(S)
      [] target \in DialogTargets \cup {"outside"} -> S.dialogOpen /\ ~covered(S)
      [] OTHER -> ~S.dialogOpen /\ ~covered(S)

\* KeyboardProvider.handleClickOutside, the document mousedown listener of
\* part_001, registered while the keyboard is open
handleClickOutside(S, target) ==
    IF revision = "direct" /\ S.isKeyboardOpen
       /\ target \notin KeyboardTargets /\ target \notin InputTargets
    THEN closeKeyboard(S)
    ELSE S

\* ProductDialog's document mousedown listener; propagates: whether the
\* mousedown reaches the document (the backdrop of part_000 stops the React
\* event, which stops the native one only where React listens below the
\* document)
dialogClickOutside(S, target, propagates) ==
    IF S.dialogOpen /\ propagates
       /\ target \notin DialogTargets /\ target \notin KeyboardTargets
    THEN handleClose(S)
    ELSE S

\* the onClick of the element the click lands on
elementClick(S, target) ==
    CASE target \in {"backdrop", "keyboardClose"} -> closeKeyboard(S)
      [] target = "dialogClose" -> handleClose(S)
      [] OTHER -> S

click(S, target, propagates) ==
    elementClick(
        dialogClickOutside(handleClickOutside(S, target), target, propagates),
        target)

(***************************************************************************)
(* Actions.                                                                *)
(***************************************************************************)
\* the program state after a step; a dialog that unmounted loses its state
Becomes(S) ==
    /\ isKeyboardOpen' = S.isKeyboardOpen
    /\ activeInput' = S.activeInput
    /\ currentOnChange' = S.currentOnChange
    /\ keyboardInputValue' = S.keyboardInputValue
    /\ kbText' = S.kbText
    /\ timers' = S.timers
    /\ dialogOpen' = S.dialogOpen
    /\ selectedItem' = S.selectedItem
    /\ comments' = S.comments
    /\ customRate' = S.customRate
    /\ invoked' = S.invoked
    /\ ran' = S.ran
    /\ IF S.dialogOpen
       THEN UNCHANGED <<editMode, itemToReplace, quantity, selectedAddons>>
       ELSE /\ editMode' = FALSE
            /\ itemToReplace' = NoLine
            /\ quantity' = <<"0">>
            /\ selectedAddons' = <<>>
    /\ IF S.dialogOpen
       THEN UNCHANGED fetchVars
       ELSE /\ itemDoc' = NULL
            /\ fetches' = <<>>
    /\ UNCHANGED <<revision, propVars, listVars>>

\* the history of the keyboard context: the sink last bound and the text
\* last handed over for the bound input
KeepHistory == UNCHANGED <<opens, buffered>>

ClosedHistory(S) ==
    /\ opens' = opens
    /\ buffered' = IF "closeKeyboard" \in S.ran THEN <<>> ELSE buffered

\* the mount of ProductDialog for item (onItemClick, not edit mode) or for a
\* cart line (edit mode)
Mount(S, item, edit, replaced) ==
    /\ isKeyboardOpen' = S.isKeyboardOpen
    /\ activeInput' = S.activeInput
    /\ currentOnChange' = S.currentOnChange
    /\ keyboardInputValue' = S.keyboardInputValue
    /\ kbText' = S.kbText
    /\ timers' = S.timers
    /\ invoked' = S.invoked
    /\ ran' = S.ran
    /\ dialogOpen' = TRUE
    /\ selectedItem' = item
    /\ editMode' = edit
    /\ itemToReplace' = replaced
    /\ quantity' = mountQuantity(activeOrders, item, edit,
                                 IF replaced = NoLine THEN Undefined ELSE replaced.quantity)
    /\ comments' = mountComments(activeOrders, item, edit, replaced)
    /\ customRate' = mountCustomRate(activeOrders, item, edit, replaced)
    /\ selectedAddons' = <<>>
    /\ itemDoc' = NULL
    /\ fetches' = <<item>>
    /\ UNCHANGED <<revision, propVars, listVars>>

\* a menu card is clicked: the store selects the item and the dialog mounts
MenuItemClick(item) ==
    /\ Reachable(Cur, "page")
    /\ LET S == click(Cur, "page", TRUE)
       IN  /\ Mount(S, item, FALSE, NoLine)
           /\ ClosedHistory(S)
    /\ lastOp' = Op("menuItemClick", item)
    /\ UNCHANGED storeVars

\* an input of the dialog takes the focus (touch, Tab): handleInputFocus
FocusInput(inputType) ==
    /\ dialogOpen
    /\ Len(timers) < MaxTimers
    /\ LET currentValue == IF inputType = "comments" THEN comments ELSE customRate
       IN  /\ Becomes(handleInputFocus(Cur, inputType))
           /\ lastOp' = Op("openKeyboard", inputType)
           /\ opens' = IF opens = <<>> THEN <<inputType>>
                       ELSE <<opens[Len(opens)], inputType>>
           /\ buffered' = currentValue
    /\ UNCHANGED storeVars

\* the deferred push of openKeyboard fires: setInput, if the widget is there
TimerFire ==
    /\ timers # <<>>
    /\ Becomes([Cur EXCEPT !.timers = Tail(timers),
                           !.kbText = IF isKeyboardOpen THEN Head(timers) ELSE @])
    /\ lastOp' = Op("setInput", NULL)
    /\ KeepHistory
    /\ UNCHANGED storeVars

\* the widget reports its new text after a key: handleKeyboardChange
KeyboardChange(newText) ==
    /\ Becomes(updateKeyboardValue([Cur EXCEPT !.kbText = newText], newText))
    /\ lastOp' = Op("key", activeInput)
    /\ opens' = opens
    /\ buffered' = IF currentOnChange # NULL THEN newText ELSE buffered
    /\ UNCHANGED storeVars

KeyPress(k) ==
    /\ isKeyboardOpen
    /\ Len(kbText) < MaxText
    /\ KeyboardChange(Append(kbText, k))

Backspace ==
    /\ isKeyboardOpen
    /\ kbText # <<>>
    /\ KeyboardChange(SubSeq(kbText, 1, Len(kbText) - 1))

\* a consumer of the context calls updateKeyboardValue itself; while the
\* keyboard is open the caller is the widget (KeyboardChange)
UpdateKeyboardValueCall(value) ==
    /\ ~isKeyboardOpen
    /\ Becomes(updateKeyboardValue(Cur, value))
    /\ lastOp' = Op("updateKeyboardValue", activeInput)
    /\ opens' = opens
    /\ buffered' = IF currentOnChange # NULL THEN value ELSE buffered
    /\ UNCHANGED storeVars

Click(target, propagates) ==
    /\ Reachable(Cur, target)
    /\ target # "backdrop" => propagates
    /\ LET S == click(Cur, target, propagates)
       IN  /\ Becomes(S)
           /\ ClosedHistory(S)
    /\ lastOp' = Op("click", target)
    /\ UNCHANGED storeVars

\* the keydown listener of ProductDialog
Escape ==
    /\ dialogOpen
    /\ Becomes(handleClose(Cur))
    /\ lastOp' = Op("escape", NULL)
    /\ KeepHistory
    /\ UNCHANGED storeVars

\* nothing is selected, no dialog is mounted and the keyboard is closed
InitIdle ==
    /\ isKeyboardOpen = FALSE
    /\ activeInput = NULL
    /\ currentOnChange = NULL
    /\ keyboardInputValue = <<>>
    /\ kbText = <<>>
    /\ timers = <<>>
    /\ dialogOpen = FALSE
    /\ selectedItem = NULL
    /\ editMode = FALSE
    /\ itemToReplace = NoLine
    /\ quantity = <<"0">>
    /\ comments = <<>>
    /\ customRate = <<>>
    /\ selectedAddons = <<>>
    /\ itemDoc = NULL
    /\ fetches = <<>>
    /\ menuItems = MenuPrice
    /\ selectedCategory = NULL
    /\ selectedSubCategory = NULL
    /\ searchQuery = <<>>
    /\ quickFilter = "all"
    /\ lastOp = Op("init", NULL)
    /\ ran = {}
    /\ invoked = <<>>
    /\ opens = <<>>
    /\ buffered = <<>>

\* an empty cart, and a dialog that is given no initial variant or add-ons
InitClosed ==
    /\ InitIdle
    /\ menuFields = MenuFields
    /\ activeOrders = <<>>
    /\ initialVariant = NULL
    /\ initialAddons = <<>>

(***************************************************************************)
(* The dialog's own controls.  These steps leave the keyboard alone: the   *)
(* specifications that take them never open it.                            *)
(***************************************************************************)
DialogStep(name, input) ==
    /\ lastOp' = Op(name, input)
    /\ ran' = {}
    /\ invoked' = <<>>
    /\ UNCHANGED <<kbVars, propVars, fetchVars, listVars, opens, buffered>>

\* the cart opens the dialog on one of its lines: edit mode, with the line
\* as itemToReplace and its quantity as initialQuantity
EditLine(k) ==
    /\ ~dialogOpen
    /\ k \in 1..Len(activeOrders)
    /\ activeOrders[k].id \in MenuItemIds
    /\ Mount(Cur, activeOrders[k].id, TRUE, activeOrders[k])
    /\ lastOp' = Op("editLine", NULL)
    /\ UNCHANGED <<opens, buffered>>
    /\ UNCHANGED storeVars

QuantityInput(value, logged) ==
    /\ dialogOpen
    /\ quantity' = handleQuantityChange(quantity, value)
    /\ DialogStep("quantityChange", IF logged THEN value ELSE NULL)
    /\ UNCHANGED <<dialogOpen, selectedItem, editMode, itemToReplace, comments,
                   customRate, selectedAddons, storeVars>>

\* onChange of the quantity input
QuantityChange(value) == QuantityInput(value, FALSE)

\* the same step, with the typed text kept in lastOp
QuantityChangeOf(value) == QuantityInput(value, TRUE)

Increment ==
    /\ dialogOpen
    /\ quantity' = handleIncrement(quantity)
    /\ DialogStep("increment", NULL)
    /\ UNCHANGED <<dialogOpen, selectedItem, editMode, itemToReplace, comments,
                   customRate, selectedAddons, storeVars>>

Decrement ==
    /\ dialogOpen
    /\ quantity' = handleDecrement(quantity)
    /\ DialogStep("decrement", NULL)
    /\ UNCHANGED <<dialogOpen, selectedItem, editMode, itemToReplace, comments,
                   customRate, selectedAddons, storeVars>>

QuantityBlur ==
    /\ dialogOpen
    /\ quantity' = quantityBlur(quantity)
    /\ DialogStep("blur", NULL)
    /\ UNCHANGED <<dialogOpen, selectedItem, editMode, itemToReplace, comments,
                   customRate, selectedAddons, storeVars>>

\* a text reaches handleCustomRateChange: from the on-screen keyboard, which
\* hands over whatever was typed on it (the sink of handleInputFocus), or
\* from the input itself (handleInputChange)
CustomRateChange(value) ==
    /\ dialogOpen
    /\ customRate' = handleCustomRateChange(customRate, value)
    /\ DialogStep("customRateChange", NULL)
    /\ UNCHANGED <<dialogOpen, selectedItem, editMode, itemToReplace, comments,
                   quantity, selectedAddons, storeVars>>

AddonToggle(k) ==
    /\ dialogOpen
    /\ k \in 1..Len(addonDetails(itemDoc))
    /\ selectedAddons' = handleAddonToggle(selectedAddons, addonDetails(itemDoc)[k])
    /\ DialogStep("addonToggle", NULL)
    /\ UNCHANGED <<dialogOpen, selectedItem, editMode, itemToReplace, comments,
                   quantity, customRate, storeVars>>

\* the store's addToOrder and removeFromOrder
FreshId(orders) ==
    CHOOSE u \in 1..(Len(orders) + 1) : \A k \in 1..Len(orders) : orders[k].uniqueId # u

addToOrder(orders, line) == Append(orders, [line EXCEPT !.uniqueId = FreshId(orders)])

removeFromOrder(orders, uniqueId) == SelectSeq(orders, LAMBDA l : l.uniqueId # uniqueId)

OrderLine(id, qty, price, comment, rate) ==
    [uniqueId |-> 0, id |-> id, quantity |-> qty, price |-> price,
     comment |-> comment, customRate |-> rate,
     selectedVariant |-> NULL, selectedAddons |-> NoList]

\* add-on lines that do not take the quantity of the commit
RECURSIVE addAddonsSingly(_, _, _)
addAddonsSingly(orders, addons, qty) ==
    IF addons = <<>> THEN orders
    ELSE addAddonsSingly(addToOrder(orders,
                                    OrderLine(Head(addons).id, 1, Head(addons).price, <<>>, Undefined)),
                         Tail(addons), qty)

RECURSIVE addAddons(_, _, _)
addAddons(orders, addons, qty) ==
    IF addons = <<>> THEN orders
    ELSE addAddons(addToOrder(orders,
                              OrderLine(Head(addons).id, qty, Head(addons).price, <<>>, Undefined)),
                   Tail(addons), qty)

\* a handleAddToOrder that does not remove the line it replaces
ordersAfterAddKeepsOld(orders, item, edit, replaced, qty, rate, comment, addons) ==
    LET main == OrderLine(item, qty, basePrice(item, rate), comment,
                          IF rate # <<>> THEN NumberOf(rate) ELSE Undefined)
    IN  addAddons(addToOrder(orders, main), addons, qty)

\* the cart handleAddToOrder leaves, when the quantity lets it go on
ordersAfterAdd(orders, item, edit, replaced, qty, rate, comment, addons) ==
    LET kept == IF edit /\ replaced.uniqueId # 0
                THEN removeFromOrder(orders, replaced.uniqueId)
                ELSE orders
        main == OrderLine(item, qty, basePrice(item, rate), comment,
                          IF rate # <<>> THEN NumberOf(rate) ELSE Undefined)
    IN  addAddons(addToOrder(kept, main), addons, qty)

\* a commit that writes the price into the selected MenuItem record
menuItemsPriceWritten(items, item, rate) == [items EXCEPT ![item] = basePrice(item, rate)]

\* a commit button that is never disabled, before a handleAddToOrder
\* without its first test
commitsAlways(q) == TRUE

\* { ...selectedItem, price: basePrice, ... } builds a new object: the
\* MenuItem records of the store keep their fields
menuItemsAfterAdd(items, item, rate) == items

\* a click on the commit button gets past the disabled attribute of the
\* button (numericQuantity === 0) and past the first test of
\* handleAddToOrder (isNaN(numericQuantity) || numericQuantity === 0)
commits(q) ==
    /\ numericQuantity(q) # 0
    /\ ~(IsNaN(ParseInt(q)) \/ ParseInt(q) = 0)

\* a click on the commit button: handleAddToOrder, unless the button is
\* disabled
AddToOrder ==
    /\ dialogOpen
    /\ LET qty == ParseInt(quantity)
       IN  IF ~commits(quantity)
           THEN /\ UNCHANGED <<dlgVars, storeVars>>
                /\ DialogStep("addToOrder", NULL)
           ELSE /\ activeOrders' = ordersAfterAdd(activeOrders, selectedItem, editMode,
                                                  itemToReplace, qty, customRate,
                                                  comments, selectedAddons)
                /\ menuItems' = menuItemsAfterAdd(menuItems, selectedItem, customRate)
                /\ Becomes([handleClose(Cur) EXCEPT !.ran = {"handleAddToOrder", "handleClose"}])
                /\ lastOp' = Op("addToOrder", NULL)
                /\ UNCHANGED <<opens, buffered>>

\* a step of the item-detail fetch or of the variant buttons
FetchStep(name, input) ==
    /\ lastOp' = Op(name, input)
    /\ ran' = {}
    /\ invoked' = <<>>
    /\ UNCHANGED <<kbVars, storeVars, propVars, listVars, opens, buffered>>

RemoveAt(q, k) == SubSeq(q, 1, k - 1) \o SubSeq(q, k + 1, Len(q))

\* the k-th db.getDoc in flight succeeds: .then(doc => setItemDoc(doc))
FetchResolve(k) ==
    /\ dialogOpen
    /\ k \in 1..Len(fetches)
    /\ itemDoc' = fetches[k]
    /\ fetches' = RemoveAt(fetches, k)
    /\ FetchStep("fetchResolve", fetches[k])
    /\ UNCHANGED dlgVars

\* the k-th db.getDoc in flight fails: .catch(() => setItemDoc(null))
FetchReject(k) ==
    /\ dialogOpen
    /\ k \in 1..Len(fetches)
    /\ itemDoc' = NULL
    /\ fetches' = RemoveAt(fetches, k)
    /\ FetchStep("fetchReject", fetches[k])
    /\ UNCHANGED dlgVars

\* the k-th variant button: handleVariantClick, then the effects that
\* depend on selectedItem (the fetch of the record, the values from the cart)
VariantClick(k) ==
    /\ dialogOpen
    /\ k \in 1..Len(variantDetails(itemDoc))
    /\ LET variantId == variantDetails(itemDoc)[k].id
           existing == existingCartItem(activeOrders, variantId, initialVariant, initialAddons)
       IN  /\ variantId # selectedItem
           /\ IF variantId \in MenuItemIds
              THEN /\ Len(fetches) < MaxFetches
                   /\ selectedItem' = variantId
                   /\ fetches' = Append(fetches, variantId)
                   /\ IF editMode
                      THEN UNCHANGED <<quantity, comments, customRate>>
                      ELSE IF existing # NoLine
                      THEN /\ quantity' = NumToString(existing.quantity)
                           /\ comments' = CommentText(existing)
                           /\ customRate' = RateText(existing)
                      ELSE /\ quantity' = NumToString(getItemQuantityFromCart(activeOrders, variantId))
                           /\ UNCHANGED <<comments, customRate>>
              ELSE UNCHANGED <<selectedItem, fetches, quantity, comments, customRate>>
           /\ FetchStep("variantClick", variantId)
    /\ UNCHANGED <<dialogOpen, editMode, itemToReplace, selectedAddons, itemDoc>>

\* the store's filters, set from the header and from MenuList
ListStep(name, input) ==
    /\ lastOp' = Op(name, input)
    /\ ran' = {}
    /\ invoked' = <<>>
    /\ UNCHANGED <<kbVars, dlgVars, storeVars, propVars, fetchVars, menuFields,
                   opens, buffered>>

\* the search box: setSearchQuery
SetSearchQuery(text) ==
    /\ ~dialogOpen
    /\ searchQuery' = text
    /\ ListStep("setSearchQuery", text)
    /\ UNCHANGED <<selectedCategory, selectedSubCategory, quickFilter>>

\* a category card: handleCategoryClick
CategoryClick(category) ==
    /\ ~dialogOpen
    /\ selectedCategory' = category
    /\ ListStep("categoryClick", category)
    /\ UNCHANGED <<selectedSubCategory, searchQuery, quickFilter>>

\* a sub-category card, shown once a category is selected:
\* handleSubCategoryClick
SubCategoryClick(subCategory) ==
    /\ ~dialogOpen
    /\ selectedCategory # NULL
    /\ selectedSubCategory' = subCategory
    /\ ListStep("subCategoryClick", subCategory)
    /\ UNCHANGED <<selectedCategory, searchQuery, quickFilter>>

\* the quick filter: setQuickFilter
SetQuickFilter(filter) ==
    /\ ~dialogOpen
    /\ quickFilter' = filter
    /\ ListStep("setQuickFilter", filter)
    /\ UNCHANGED <<selectedCategory, selectedSubCategory, searchQuery>>

\* the close button of the dialog
CloseDialog ==
    /\ dialogOpen
    /\ Becomes(handleClose(Cur))
    /\ lastOp' = Op("closeDialog", NULL)
    /\ KeepHistory
    /\ UNCHANGED storeVars

(***************************************************************************)
(* Spec: the keyboard context, in either revision, bound to the dialog's   *)
(* comments and custom-rate inputs; all text comes from the on-screen      *)
(* keyboard.                                                               *)
(***************************************************************************)
Init ==
    /\ revision \in {"flush", "direct"}
    /\ InitClosed

Next ==
    \/ \E item \in {"pizza"} : MenuItemClick(item)
    \/ \E inputType \in InputTypes : FocusInput(inputType)
    \/ TimerFire
    \/ \E k \in KeyChars : KeyPress(k)
    \/ Backspace
    \/ \E value \in KeyboardTexts : UpdateKeyboardValueCall(value)
    \/ \E target \in ClickTargets, propagates \in BOOLEAN : Click(target, propagates)
    \/ Escape

Spec == Init /\ [][Next]_vars

(***************************************************************************)
(* SpecQty: the quantity field of one dialog after another, with the text  *)
(* typed into it kept in lastOp.                                           *)
(***************************************************************************)
\* the values a type="number" input hands to onChange: empty or a numeric
\* literal
QuantityTexts == {value \in StringsUpTo(QtyChars, MaxQtyLen) : ~IsNaN(NumberOf(value))}

InitDialog ==
    /\ revision = "direct"
    /\ InitClosed

NextQty ==
    \/ MenuItemClick("pizza")
    \/ \E value \in QuantityTexts : QuantityChangeOf(value)
    \/ Increment
    \/ Decrement
    \/ QuantityBlur
    \/ CloseDialog

SpecQty == InitDialog /\ [][NextQty]_vars

(***************************************************************************)
(* SpecCart: the quantity field and the cart.  The cart holds one line per *)
(* menu item: an item that has a line is committed again in edit mode.     *)
(***************************************************************************)
NextCart ==
    \/ MenuItemClick("pizza")
    \/ \E k \in 1..Len(activeOrders) : EditLine(k)
    \/ \E value \in QuantityTexts : QuantityChange(value)
    \/ Increment
    \/ Decrement
    \/ QuantityBlur
    \/ (editMode \/ existingCartItem(activeOrders, selectedItem, initialVariant, initialAddons) = NoLine)
          /\ AddToOrder
    \/ CloseDialog

SpecCart == InitDialog /\ [][NextCart]_vars

(***************************************************************************)
(* SpecCommit: dialogs that commit to a cart of several lines, with        *)
(* add-ons, a custom rate, and edits of the lines.                         *)
(***************************************************************************)
\* texts given to the quantity field
CommitQuantityTexts == {<<>>, <<"0">>, <<"2">>}

\* texts given to the custom-rate field
CommitRateTexts == {<<>>, <<"5">>}

\* the lines a commit leaves fit the cart
CartFits ==
    Len(activeOrders) + 1 + Len(selectedAddons) - (IF editMode THEN 1 ELSE 0) <= MaxCart

NextCommit ==
    \/ MenuItemClick("pizza")
    \/ \E k \in 1..Len(activeOrders) : activeOrders[k].id = "pizza" /\ EditLine(k)
    \/ \E value \in CommitQuantityTexts : QuantityChange(value)
    \/ \E value \in CommitRateTexts : CustomRateChange(value)
    \/ \E k \in 1..Len(fetches) : FetchResolve(k)
    \/ \E k \in 1..2 : AddonToggle(k)
    \/ CartFits /\ AddToOrder
    \/ CloseDialog

SpecCommit == InitDialog /\ [][NextCommit]_vars

(***************************************************************************)
(* SpecMatch: the dialog is opened over carts whose lines carry variants   *)
(* and add-on lists, with an initial variant and initial add-ons.          *)
(***************************************************************************)
\* the variant of a cart line: none, or the id of one
LineVariants == {NULL, "v1", "v2"}

\* the add-on list of a cart line: none, or a list of add-ons
LineAddons ==
    {NoList, <<>>, <<[id |-> "dip"]>>, <<[id |-> "dip"], [id |-> "dip"]>>,
     <<[id |-> "dip"], [id |-> "cola"]>>}

\* the initialVariant and initialAddons props
InitialVariants == {NULL, "v1"}

InitialAddons ==
    {<<>>, <<[id |-> "dip"]>>, <<[id |-> "dip"], [id |-> "cola"]>>,
     <<[id |-> "cola"], [id |-> "dip"]>>}

\* the lines a cart may hold
CartLines ==
    {[OrderLine(id, 2, MenuPrice[id], <<>>, Undefined)
         EXCEPT !.selectedVariant = variant, !.selectedAddons = addons] :
        id \in MenuItemIds, variant \in LineVariants, addons \in LineAddons}

\* the carts of n lines, each line with its position as uniqueId
RECURSIVE CartsOf(_)
CartsOf(n) ==
    IF n = 0 THEN {<<>>}
    ELSE {Append(cart, [line EXCEPT !.uniqueId = n]) :
             cart \in CartsOf(n - 1), line \in CartLines}

InitMatch ==
    /\ revision = "direct"
    /\ InitIdle
    /\ menuFields = MenuFields
    /\ activeOrders \in UNION {CartsOf(n) : n \in 0..MaxLines}
    /\ initialVariant \in InitialVariants
    /\ initialAddons \in InitialAddons

NextMatch ==
    \/ \E item \in MenuItemIds : MenuItemClick(item)
    \/ CloseDialog

SpecMatch == InitMatch /\ [][NextMatch]_vars

(***************************************************************************)
(* SpecFetch: one dialog, its variant buttons and the fetches of the item  *)
(* records, which complete in any order.                                   *)
(***************************************************************************)
NextFetch ==
    \/ \E item \in MenuItemIds : MenuItemClick(item)
    \/ \E k \in 1..3 : VariantClick(k)
    \/ \E k \in 1..Len(fetches) : FetchResolve(k)
    \/ \E k \in 1..Len(fetches) : FetchReject(k)
    \/ CloseDialog

SpecFetch == InitDialog /\ [][NextFetch]_vars

(***************************************************************************)
(* SpecList: MenuList over menus of two items, with the store's filters.   *)
(***************************************************************************)
SearchTexts == StringsUpTo(SearchChars, MaxSearch)

\* the menus: the second item in any category and sub-category, special or not
Menus ==
    {[MenuFields EXCEPT !.cola.main_category = category,
                        !.cola.sub_category = subCategory,
                        !.cola.special_dish = special] :
        category \in Categories, subCategory \in SubCategories, special \in {0, 1}}

InitList ==
    /\ revision = "direct"
    /\ InitIdle
    /\ menuFields \in Menus
    /\ activeOrders = <<>>
    /\ initialVariant = NULL
    /\ initialAddons = <<>>

NextList ==
    \/ \E text \in SearchTexts : SetSearchQuery(text)
    \/ \E category \in Categories : CategoryClick(category)
    \/ \E subCategory \in SubCategories : SubCategoryClick(subCategory)
    \/ \E filter \in QuickFilters : SetQuickFilter(filter)

SpecList == InitList /\ [][NextList]_vars

(***************************************************************************)
(* SpecTotal: one dialog, its quantity, custom rate and add-ons.           *)
(***************************************************************************)
RateTexts == StringsUpTo(RateChars, MaxRateLen)

NextTotal ==
    \/ MenuItemClick("pizza")
    \/ Increment
    \/ Decrement
    \/ \E value \in RateTexts : CustomRateChange(value)
    \/ \E k \in 1..Len(fetches) : FetchResolve(k)
    \/ \E k \in 1..2 : AddonToggle(k)
    \/ CloseDialog

SpecTotal == InitDialog /\ [][NextTotal]_vars

(***************************************************************************)
(* Properties of the keyboard context (Spec).                              *)
(***************************************************************************)
Last(q) == q[Len(q)]

\* the value of the dialog field an input type names
Field(inputType) == IF inputType = "comments" THEN comments ELSE customRate

\* the text the user sees on the keyboard: the preview field of part_000,
\* the widget's own text in part_001, which has no preview field
DisplayText == IF revision = "flush" THEN keyboardInputValue ELSE kbText

\* handleCustomRateChange stores the text it is given
Accepts(text) == text = <<>> \/ (~IsNaN(ParseFloat(text)) /\ ParseFloat(text) >= 0)

\* C1: once openKeyboard has been given a new sink, every onChange call that
\* an update or a close makes goes to that sink: the sink of an earlier
\* openKeyboard is not called again until its input is opened again.
C1_OnlyLatestSink ==
    \A k \in 1..Len(invoked) : opens # <<>> /\ invoked[k].cb = Last(opens)

\* comments was opened, then customRate, and a key reached customRate's sink
C1_Witness ==
    /\ opens = <<"comments", "customRate">>
    /\ lastOp.op = "key"
    /\ invoked # <<>>

\* C2 as amended: openKeyboard leaves the keyboard open, bound to inputId and
\* to onChange alone; part_000 shows currentValue at once in its preview
\* field, and in both revisions the push of currentValue into the widget is
\* only queued.
C2_OpenBinds ==
    lastOp.op = "openKeyboard" =>
        /\ isKeyboardOpen
        /\ activeInput = lastOp.input
        /\ currentOnChange = lastOp.input
        /\ revision = "flush" => keyboardInputValue = buffered
        /\ timers # <<>> /\ Last(timers) = buffered

\* the keyboard was bound to comments and is opened for customRate, whose
\* value is not empty
C2_Witness ==
    /\ lastOp.op = "openKeyboard"
    /\ opens = <<"comments", "customRate">>
    /\ buffered # <<>>

\* C2 as stated: right after openKeyboard the keyboard's display text is
\* currentValue.
C2_DisplaySeeded ==
    lastOp.op = "openKeyboard" =>
        /\ isKeyboardOpen
        /\ activeInput = lastOp.input
        /\ currentOnChange = lastOp.input
        /\ DisplayText = buffered

\* C3: after closeKeyboard the keyboard is closed and nothing is bound, and
\* an updateKeyboardValue on the closed keyboard calls no sink and changes
\* no field of the dialog.
C3_ClosedIsInert ==
    /\ []("closeKeyboard" \in ran =>
            ~isKeyboardOpen /\ activeInput = NULL /\ currentOnChange = NULL)
    /\ [][("updateKeyboardValue" \in ran' /\ ~isKeyboardOpen) =>
            (invoked' = <<>> /\ comments' = comments /\ customRate' = customRate)]_vars

\* the keyboard was opened and closed, the dialog still shows a comment, and
\* updateKeyboardValue is called
C3_Witness ==
    /\ lastOp.op = "updateKeyboardValue"
    /\ opens # <<>>
    /\ ~isKeyboardOpen
    /\ dialogOpen
    /\ comments # <<>>

\* C4: in part_000 closeKeyboard on a bound keyboard calls the bound sink
\* exactly once, with the text of the latest updateKeyboardValue since the
\* open, or with openKeyboard's currentValue when there was none.
C4_CloseFlushesBuffer ==
    [][(revision = "flush" /\ "closeKeyboard" \in ran' /\ currentOnChange # NULL) =>
          invoked' = <<[cb |-> currentOnChange, v |-> buffered]>>]_vars

\* a close in part_000 that flushes a text typed on the keyboard
C4_Witness ==
    /\ revision = "flush"
    /\ "closeKeyboard" \in ran
    /\ Len(invoked) = 1
    /\ invoked[1].v # <<>>

\* C5: after a key press on a bound keyboard, once the deferred push of
\* openKeyboard has fired, the field the keyboard is bound to equals the
\* keyboard's text.
C5_FieldMirrorsKeyboard ==
    (/\ lastOp.op \in {"key", "setInput"}
     /\ isKeyboardOpen
     /\ currentOnChange # NULL
     /\ dialogOpen
     /\ timers = <<>>) => Field(currentOnChange) = kbText

\* what a key press does do: it calls the bound sink once with the
\* keyboard's text, and a custom rate keeps its value when
\* handleCustomRateChange rejects that text
KeyReachesSink ==
    /\ []((lastOp.op = "key" /\ currentOnChange # NULL) =>
            /\ invoked = <<[cb |-> currentOnChange, v |-> kbText]>>
            /\ (dialogOpen /\ currentOnChange = "comments") => comments = kbText
            /\ (dialogOpen /\ currentOnChange = "customRate" /\ Accepts(kbText))
                   => customRate = kbText)
    /\ [][(lastOp'.op = "key" /\ currentOnChange = "customRate" /\ ~Accepts(kbText'))
            => customRate' = customRate]_vars

\* C6: with the keyboard open, a click outside the keyboard surface and
\* outside the owning input closes the keyboard, and a click on either
\* leaves it open and bound as it was.  (The keyboard's own close button is
\* not a click this is about.)
C6_OutsideClickCloses ==
    [][(isKeyboardOpen /\ lastOp'.op = "click" /\ lastOp'.input # "keyboardClose") =>
          IF lastOp'.input \in {"keyboard", "ownerInput"}
          THEN /\ isKeyboardOpen'
               /\ activeInput' = activeInput
               /\ currentOnChange' = currentOnChange
          ELSE ~isKeyboardOpen']_vars

\* C7: once ProductDialog has closed, the keyboard is not open and holds no
\* sink of the dialog.
C7_NoBindingOutlivesDialog ==
    ~dialogOpen => (~isKeyboardOpen /\ currentOnChange = NULL)

\* C18: in both revisions the keyboard is open exactly when activeInput is
\* set, and exactly when a sink is bound.
C18_OpenIffBound ==
    /\ isKeyboardOpen <=> activeInput # NULL
    /\ isKeyboardOpen <=> currentOnChange # NULL

\* the keyboard was opened for one input, then for customRate, and
\* a text went through updateKeyboardValue
C18_Witness ==
    /\ Len(opens) = 2
    /\ isKeyboardOpen
    /\ activeInput = "customRate"
    /\ "updateKeyboardValue" \in ran

(***************************************************************************)
(* Properties of the quantity field (SpecQty, SpecCart) and of the total   *)
(* (SpecTotal).                                                            *)
(***************************************************************************)
\* text is the literal of an integer from 0 to 99
IsIntegerInRange(text) ==
    /\ text # <<>>
    /\ ~IsNaN(NumberOf(text))
    /\ NumberOf(text) % Scale = 0
    /\ NumberOf(text) >= 0
    /\ NumberOf(text) <= 99 * Scale

\* the quantity the dialog shows is an integer from 0 to 99, empty being 0
QuantityInRange ==
    /\ \A k \in 1..Len(quantity) : quantity[k] \in DigitChars
    /\ numericQuantity(quantity) \in 0..99

\* C8: a text given to the quantity field that is not an integer in [0,99]
\* leaves the quantity as it was.
C8_OnlyIntegersAccepted ==
    [][(lastOp'.op = "quantityChange" /\ ~IsIntegerInRange(lastOp'.input)) =>
          numericQuantity(quantity') = numericQuantity(quantity)]_vars

UnitPrice == IF customRate # <<>> THEN ParseFloat(customRate) ELSE MenuPrice[selectedItem]

RECURSIVE SumOfPrices(_)
SumOfPrices(addons) ==
    IF addons = <<>> THEN 0 ELSE Head(addons).price + SumOfPrices(Tail(addons))

\* C10: the total an open dialog shows is (unit price + sum of the prices of
\* the selected add-ons) x quantity.
C10_TotalFormula ==
    dialogOpen =>
        total(selectedItem, customRate, selectedAddons, quantity)
            = (UnitPrice + SumOfPrices(selectedAddons)) * numericQuantity(quantity)

\* the total is that product whenever the custom rate, if entered, is a
\* numeric literal; the example of C10: 10.00, one add-on at 2.50, 3 items
TotalOfNumericRate ==
    /\ (dialogOpen /\ ~IsNaN(NumberOf(customRate))) =>
          total(selectedItem, customRate, selectedAddons, quantity)
              = (UnitPrice + SumOfPrices(selectedAddons)) * numericQuantity(quantity)
    /\ (/\ dialogOpen
        /\ customRate = <<>>
        /\ quantity = <<"3">>
        /\ selectedAddons = <<[id |-> "cola", price |-> MenuPrice["cola"]]>>)
          => total(selectedItem, customRate, selectedAddons, quantity) = (75 * Scale) \div 2

\* text converts to a non-negative number
IsNonNegativeNumber(text) ==
    /\ text # <<>>
    /\ ~IsNaN(NumberOf(text))
    /\ NumberOf(text) >= 0

\* C15: the stored custom rate is empty or a text that converts to a
\* non-negative number, and a custom-rate input changes it only to such a
\* text or to the empty text.
C15_StoredRateIsNumber ==
    /\ [](dialogOpen => (customRate = <<>> \/ IsNonNegativeNumber(customRate)))
    /\ [][(lastOp'.op = "customRateChange" /\ customRate' # customRate)
             => (customRate' = <<>> \/ IsNonNegativeNumber(customRate'))]_vars

(***************************************************************************)
(* Properties of the commit (SpecCommit).                                  *)
(***************************************************************************)
\* the step is a click on the commit button while the quantity is 0, empty
\* or not a number
CommitAtZero ==
    /\ lastOp'.op = "addToOrder"
    /\ (quantity = <<>> \/ IsNaN(ParseInt(quantity)) \/ ParseInt(quantity) = 0)

\* C19: a commit attempted while the quantity is 0, empty or not a number
\* removes no cart line and adds none, keeps the selected item and leaves
\* the dialog open.
C19_ZeroCommitIsNoOp ==
    [][CommitAtZero =>
          /\ activeOrders' = activeOrders
          /\ selectedItem' = selectedItem
          /\ dialogOpen']_vars

\* a commit attempted in edit mode, on a line of the cart, with the quantity
\* emptied
C19_Witness ==
    /\ lastOp.op = "addToOrder"
    /\ dialogOpen
    /\ editMode
    /\ itemToReplace.uniqueId # 0
    /\ quantity = <<>>
    /\ Len(activeOrders) > 1

\* the step is a commit with a quantity above 0
CommitAboveZero ==
    /\ lastOp'.op = "addToOrder"
    /\ quantity # <<>>
    /\ ~IsNaN(ParseInt(quantity))
    /\ ParseInt(quantity) > 0

\* the cart without the line of itemToReplace
OtherLines == SelectSeq(activeOrders, LAMBDA l : l.uniqueId # itemToReplace.uniqueId)

\* C12: a commit in edit mode with a quantity above 0 removes exactly one
\* line, the one with itemToReplace's uniqueId, keeps every other line as
\* it was, and adds one main line and one line per selected add-on.
C12_EditReplacesOneLine ==
    [][(CommitAboveZero /\ editMode /\ itemToReplace.uniqueId # 0) =>
          /\ Len(OtherLines) = Len(activeOrders) - 1
          /\ Len(activeOrders') = Len(OtherLines) + 1 + Len(selectedAddons)
          /\ SubSeq(activeOrders', 1, Len(OtherLines)) = OtherLines
          /\ activeOrders'[Len(OtherLines) + 1].id = selectedItem
          /\ \A j \in 1..Len(selectedAddons) :
                 activeOrders'[Len(OtherLines) + 1 + j].id = selectedAddons[j].id]_vars

\* the first of two pizza lines was edited and committed with one add-on:
\* the other pizza line is now first, the new main line and the add-on
\* line follow it
C12_Witness ==
    /\ lastOp.op = "addToOrder"
    /\ ~dialogOpen
    /\ Len(activeOrders) = 3
    /\ activeOrders[1].id = "pizza" /\ activeOrders[1].uniqueId = 2
    /\ activeOrders[2].id = "pizza" /\ activeOrders[2].uniqueId = 1
    /\ activeOrders[3].id = "cola"

\* position, in the cart after a commit, of the main line the commit added
MainAt == Len(activeOrders') - Len(selectedAddons)

\* C13: a commit with quantity q above 0 adds each selected add-on as a line
\* of its own, with quantity q and the add-on's price; the main line
\* carries the unit price alone and no add-on list.
C13_AddOnsAreOwnLines ==
    [][CommitAboveZero =>
          /\ MainAt >= 1
          /\ activeOrders'[MainAt].id = selectedItem
          /\ activeOrders'[MainAt].quantity = ParseInt(quantity)
          /\ activeOrders'[MainAt].price = UnitPrice
          /\ activeOrders'[MainAt].selectedAddons = NoList
          /\ \A j \in 1..Len(selectedAddons) :
                 /\ activeOrders'[MainAt + j].id = selectedAddons[j].id
                 /\ activeOrders'[MainAt + j].quantity = ParseInt(quantity)
                 /\ activeOrders'[MainAt + j].price = selectedAddons[j].price]_vars

\* a commit of 2 pizzas with both add-ons, dip chosen before cola
C13_Witness ==
    /\ lastOp.op = "addToOrder"
    /\ ~dialogOpen
    /\ Len(activeOrders) = 3
    /\ activeOrders[1].id = "pizza" /\ activeOrders[1].price = MenuPrice["pizza"]
    /\ activeOrders[2].id = "dip" /\ activeOrders[2].quantity = 2
    /\ activeOrders[3].id = "cola" /\ activeOrders[3].quantity = 2
    /\ activeOrders[3].price = MenuPrice["cola"]

\* price x quantity, summed over the lines of orders from position k on
RECURSIVE LinesValue(_, _)
LinesValue(orders, k) ==
    IF k > Len(orders) THEN 0
    ELSE orders[k].price * orders[k].quantity + LinesValue(orders, k + 1)

\* C20: on a commit with a quantity above 0, price x quantity summed over
\* the lines the commit adds is the total the dialog shows at that moment.
C20_LinesSumToTotal ==
    [][CommitAboveZero =>
          LinesValue(activeOrders', MainAt)
              = total(selectedItem, customRate, selectedAddons, quantity)]_vars

\* a commit of 2 pizzas at the custom rate 5 with the cola add-on: 15.00
C20_Witness ==
    /\ lastOp.op = "addToOrder"
    /\ ~dialogOpen
    /\ Len(activeOrders) = 2
    /\ activeOrders[1].id = "pizza" /\ activeOrders[1].price = 5 * Scale
    /\ activeOrders[2].id = "cola"
    /\ LinesValue(activeOrders, 1) = 15 * Scale

\* C11: a custom rate, once entered, takes the place of the base price in
\* the total and in the price of the committed line, and the MenuItem
\* records of the store keep their base price through every edit and commit.
C11_MenuPriceUntouched ==
    /\ [](menuItems = MenuPrice)
    /\ []((dialogOpen /\ IsNonNegativeNumber(customRate)) =>
             total(selectedItem, customRate, selectedAddons, quantity)
                 = (ParseFloat(customRate) + SumOfPrices(selectedAddons))
                       * numericQuantity(quantity))
    /\ [][(CommitAboveZero /\ IsNonNegativeNumber(customRate)) =>
             activeOrders'[MainAt].price = ParseFloat(customRate)]_vars

\* a pizza line committed at the custom rate 5, then opened again
C11_Witness ==
    /\ dialogOpen
    /\ selectedItem = "pizza"
    /\ customRate = <<"5">>
    /\ \E k \in 1..Len(activeOrders) :
           /\ activeOrders[k].id = "pizza"
           /\ activeOrders[k].price = 5 * Scale
           /\ activeOrders[k].customRate = 5 * Scale

(***************************************************************************)
(* Properties of the cart line the dialog finds (SpecMatch).               *)
(***************************************************************************)
\* the ids of a list of add-ons, as a set; a line with no list has none
AddonIds(addons) ==
    IF addons = NoList THEN {} ELSE {addons[k].id : k \in 1..Len(addons)}

\* the line agrees with the dialog on item, variant and set of add-ons
MatchesExactly(order) ==
    /\ order.id = selectedItem
    /\ order.selectedVariant = initialVariant
    /\ AddonIds(order.selectedAddons) = AddonIds(initialAddons)

\* C14: the cart line the dialog treats as the existing one agrees with the
\* selected item on the item id, with the initial variant on the variant id
\* and with the initial add-ons on the set of add-on ids, and a line is found
\* whenever the cart holds such a line.  A line without a variant is read as
\* agreeing with an absent initial variant, one without an add-on list as
\* agreeing with no initial add-ons.
C14_ExistingLineMatchesExactly ==
    LET existing == existingCartItem(activeOrders, selectedItem, initialVariant, initialAddons)
    IN  dialogOpen =>
            /\ existing # NoLine => MatchesExactly(existing)
            /\ (\E k \in 1..Len(activeOrders) : MatchesExactly(activeOrders[k]))
                   => existing # NoLine
(***************************************************************************)
(* Properties of the item-detail fetch (SpecFetch).                        *)
(***************************************************************************)
\* C17: once no fetch is outstanding, the record the dialog holds is the
\* record of the selected item, or none; it is never the record of an item
\* selected before.
C17_DetailIsOfSelectedItem ==
    fetches = <<>> => itemDoc \in {NULL, selectedItem}
(***************************************************************************)
(* Properties of the menu list (SpecList).                                 *)
(***************************************************************************)
\* the list MenuList shows
Displayed ==
    filteredItems(menuFields, selectedCategory, selectedSubCategory, searchQuery,
                  quickFilter)

\* the item is of the current category and sub-category
InCurrentCategory(id) ==
    /\ selectedCategory # NULL => menuFields[id].main_category = selectedCategory
    /\ selectedSubCategory # NULL => menuFields[id].sub_category = selectedSubCategory

\* the item passes the quick filter
PassesQuickFilter(id) ==
    quickFilter = "special" => menuFields[id].special_dish = 1

\* the list holds exactly the items of the set, each once, in the menu's order
ListsExactly(list, set) ==
    /\ {list[k] : k \in 1..Len(list)} = set
    /\ Len(list) = Cardinality(set)
    /\ \A j, k \in 1..Len(list) :
           j < k => \E m, n \in 1..Len(MenuOrder) :
                        m < n /\ MenuOrder[m] = list[j] /\ MenuOrder[n] = list[k]

\* C16, as stated: with the search text empty, the list shown is the list of
\* all items of the current category and sub-category, whatever the quick
\* filter.
C16_ClearedSearchShowsCategory ==
    searchQuery = <<>> =>
        ListsExactly(Displayed, {id \in MenuItemIds : InCurrentCategory(id)})

\* C16, amended: with the search text empty, the list shown is the list of
\* the items of the current category and sub-category that pass the quick
\* filter.
C16_ClearedSearchShowsQuickFiltered ==
    searchQuery = <<>> =>
        ListsExactly(Displayed,
                     {id \in MenuItemIds : InCurrentCategory(id) /\ PassesQuickFilter(id)})

\* the search text has just been cleared, with a category, a sub-category and
\* the quick filter "special" selected, and the list shows one of the two
\* items of that sub-category
C16_Witness ==
    /\ lastOp.op = "setSearchQuery"
    /\ searchQuery = <<>>
    /\ selectedCategory # NULL
    /\ selectedSubCategory # NULL
    /\ quickFilter = "special"
    /\ Len(Displayed) = 1
    /\ \A id \in MenuItemIds : InCurrentCategory(id)
====
